---- MODULE Spec2Model ----
(***************************************************************************)
(* A model of notstd::RawMemory<T> and notstd::Vector<T> (src/vector.h).   *)
(*                                                                         *)
(* The free store is a map from block ids to blocks of cells; a cell is    *)
(* either raw (no object lives in it) or holds a live element of type T.   *)
(* A Vector is its data_ (a RawMemory: buffer_ and capacity_) and size_.   *)
(* Every member function is one action that runs the whole function body,  *)
(* statement by statement, on a machine record that carries the free       *)
(* store, the pending exception and what the run has done so far.          *)
(*                                                                         *)
(* Element operations that may throw (T's constructors and assignments)    *)
(* draw on a budget: the operation that finds the budget at 0 throws.      *)
(* operator new throws when the store is full or the call's oom is set.    *)
(* Asserts are modelled as compiled in (a build without NDEBUG).           *)
(***************************************************************************)
EXTENDS Integers, Sequences, FiniteSets, TLC

\* Bounds of the model.
MaxCells == 5        \* cells of the free store shared by two Vectors: operator new fails beyond
MaxCellsOne == 6     \* cells of the free store of the runs with one Vector
MaxCap == 4          \* largest n passed to Vector(n), Reserve(n) and Resize(n)
MaxVal == 1          \* element values are 0..MaxVal
MaxAppends == 5      \* length of the append-only runs

SizeBits == 16       \* width of size_t in the model (arithmetic on it wraps)

\* SIZE_MAX
SizeMax == 2^SizeBits - 1

Vecs == {"a", "b"}
Vals == 0..MaxVal

\* Values a cell can show besides the caller's ones.
Default == 0         \* value of a value-initialized T
MovedFrom == -1      \* state of a T that has been moved from
Raw == -2            \* indeterminate content of a cell with no live object

Null == 0
BlockIds == 1..(Cardinality(Vecs) + 1)

RawCell == [live |-> FALSE, val |-> Raw]
FreeBlock == [alloc |-> FALSE, cell |-> <<>>]

\* A budget no call uses up, and the budgets a call is given.
NoFail == MaxCellsOne + MaxAppends + 2
Budgets == {NoFail} \cup (0..MaxCellsOne)

VARIABLES
    heap,        \* the free store: block id -> [alloc, cell]
    vec,         \* the Vector objects: name -> [alive, data, size]
    nothrowMove, \* T's move operations are noexcept (TRUE), or T is copyable and its
                 \* move operations may throw (FALSE): the test of UninitializedMoveOrCopy
    store,       \* number of cells the free store can hold at a time
    aborted,     \* an assert has failed and the process has aborted
    fault,       \* what the last call did wrong: ub, leak, onlive, dfree of its machine
    appended,    \* values appended so far (append-only runs)
    relocations  \* elements migrated from an old block to a new one so far, by the
                 \* appends that returned (append-only runs)

vars == <<heap, vec, nothrowMove, store, aborted, fault, appended, relocations>>

Min(a, b) == IF a < b THEN a ELSE b

-----------------------------------------------------------------------------
(* The machine a member function runs on *)

Machine(h, cells, budget, oom, nm) ==
    [heap |-> h, store |-> cells, budget |-> budget, oom |-> oom, exc |-> "none",
     nothrowMove |-> nm,
     ptr |-> Null,        \* result of the last Allocate
     ub |-> FALSE,        \* an object was used outside its lifetime or a block outside its bounds
     leak |-> FALSE,      \* a block was freed while a cell of it was live
     onlive |-> FALSE,    \* an object was constructed over a live one
     dfree |-> FALSE,     \* a block was freed twice
     ncons |-> 0,         \* element copy and move constructions
     freed |-> {}]        \* blocks freed by this call

Ok(m) == m.exc = "none"

Spend(m) == [m EXCEPT !.budget = IF @ > 0 THEN @ - 1 ELSE @]

Raise(m, what) == [m EXCEPT !.exc = what, !.budget = NoFail]

FreeIds(h) == {b \in BlockIds : ~h[b].alloc}

InBlock(h, buf, i) ==
    buf # Null /\ h[buf].alloc /\ i >= 0 /\ i < Len(h[buf].cell)

IsLive(h, buf, i) == InBlock(h, buf, i) /\ h[buf].cell[i + 1].live

Read(h, buf, i) == IF InBlock(h, buf, i) THEN h[buf].cell[i + 1].val ELSE Raw

RECURSIVE Used(_, _)
Used(h, ids) ==
    IF ids = {} THEN 0
    ELSE LET b == CHOOSE i \in ids : TRUE
         IN Len(h[b].cell) + Used(h, ids \ {b})

\* RawMemory::Allocate: operator new for n != 0, nullptr for n = 0; operator new
\* throws std::bad_alloc when the store is exhausted or when the caller's oom says so.
Allocate(m, n) ==
    IF n = 0 THEN [m EXCEPT !.ptr = Null]
    ELSE IF m.oom \/ Used(m.heap, BlockIds) + n > m.store
    THEN [Raise(m, "bad_alloc") EXCEPT !.ptr = Null]
    ELSE LET b == CHOOSE i \in FreeIds(m.heap) : \A j \in FreeIds(m.heap) : i <= j
         IN [m EXCEPT !.heap[b] = [alloc |-> TRUE, cell |-> [i \in 1..n |-> RawCell]],
                             !.ptr = b]

\* RawMemory::Deallocate (and so ~RawMemory): operator delete, no destructor runs.
Deallocate(m, buf) ==
    IF buf = Null THEN m
    ELSE IF ~m.heap[buf].alloc THEN [m EXCEPT !.dfree = TRUE]
    ELSE [m EXCEPT !.heap[buf] = FreeBlock,
                   !.freed = @ \cup {buf},
                   !.leak = @ \/ (\E i \in DOMAIN m.heap[buf].cell : m.heap[buf].cell[i].live)]

\* new (buf + i) T(...): what names the constructor, for the exception it may throw.
PlacementNew(m, buf, i, v, what, canThrow) ==
    IF canThrow /\ m.budget = 0 THEN Raise(m, what)
    ELSE LET m1 == IF canThrow THEN Spend(m) ELSE m
         IN IF ~InBlock(m1.heap, buf, i) THEN [m1 EXCEPT !.ub = TRUE]
            ELSE [m1 EXCEPT !.heap[buf].cell[i + 1] = [live |-> TRUE, val |-> v],
                            !.onlive = @ \/ m1.heap[buf].cell[i + 1].live]

\* (buf + i)->~T()
DestroyAt(m, buf, i) ==
    IF IsLive(m.heap, buf, i)
    THEN [m EXCEPT !.heap[buf].cell[i + 1] = RawCell]
    ELSE [m EXCEPT !.ub = TRUE]

\* std::destroy_n(buf + first, n)
RECURSIVE DestroyN(_, _, _, _)
DestroyN(m, buf, first, n) ==
    IF n <= 0 THEN m
    ELSE DestroyN(DestroyAt(m, buf, first), buf, first + 1, n - 1)

\* new (dbuf + di) T(sbuf[si]): T's copy constructor.
CopyConstruct(m, sbuf, si, dbuf, di) ==
    LET m1 == PlacementNew(m, dbuf, di, Read(m.heap, sbuf, si), "copy", TRUE)
    IN IF ~Ok(m1) THEN m1
       ELSE [m1 EXCEPT !.ncons = @ + 1,
                       !.ub = @ \/ ~IsLive(m.heap, sbuf, si)]

\* new (dbuf + di) T(std::move(sbuf[si])): T's move constructor.
MoveConstruct(m, sbuf, si, dbuf, di) ==
    LET m1 == PlacementNew(m, dbuf, di, Read(m.heap, sbuf, si), "move", ~m.nothrowMove)
    IN IF ~Ok(m1) THEN m1
       ELSE IF ~IsLive(m.heap, sbuf, si) THEN [m1 EXCEPT !.ncons = @ + 1, !.ub = TRUE]
       ELSE [m1 EXCEPT !.ncons = @ + 1, !.heap[sbuf].cell[si + 1].val = MovedFrom]

\* dbuf[di] = sbuf[si]: T's copy assignment.
CopyAssign(m, sbuf, si, dbuf, di) ==
    IF m.budget = 0 THEN Raise(m, "copy_assign")
    ELSE LET m1 == Spend(m)
         IN IF ~IsLive(m.heap, sbuf, si) \/ ~IsLive(m.heap, dbuf, di)
            THEN [m1 EXCEPT !.ub = TRUE]
            ELSE [m1 EXCEPT !.heap[dbuf].cell[di + 1].val = Read(m.heap, sbuf, si)]

\* dbuf[di] = std::move(sbuf[si]): T's move assignment.
MoveAssign(m, sbuf, si, dbuf, di) ==
    IF ~m.nothrowMove /\ m.budget = 0 THEN Raise(m, "move_assign")
    ELSE LET m1 == IF m.nothrowMove THEN m ELSE Spend(m)
         IN IF ~IsLive(m.heap, sbuf, si) \/ ~IsLive(m.heap, dbuf, di)
            THEN [m1 EXCEPT !.ub = TRUE]
            ELSE [m1 EXCEPT !.heap[dbuf].cell[di + 1].val = Read(m.heap, sbuf, si),
                            !.heap[sbuf].cell[si + 1].val = MovedFrom]

\* dbuf[di] = std::move(tmp) for a local tmp holding v.
AssignValue(m, dbuf, di, v) ==
    IF ~m.nothrowMove /\ m.budget = 0 THEN Raise(m, "move_assign")
    ELSE LET m1 == IF m.nothrowMove THEN m ELSE Spend(m)
         IN IF ~IsLive(m.heap, dbuf, di) THEN [m1 EXCEPT !.ub = TRUE]
            ELSE [m1 EXCEPT !.heap[dbuf].cell[di + 1].val = v]

\* std::uninitialized_copy_n(sbuf + si, n, dbuf + di): k elements are done; on a
\* throw the library destroys what it constructed and rethrows.
RECURSIVE UninitializedCopyN(_, _, _, _, _, _, _)
UninitializedCopyN(m, sbuf, si, n, dbuf, di, k) ==
    IF k >= n THEN m
    ELSE LET m1 == CopyConstruct(m, sbuf, si + k, dbuf, di + k)
         IN IF ~Ok(m1) THEN DestroyN(m1, dbuf, di, k)
            ELSE UninitializedCopyN(m1, sbuf, si, n, dbuf, di, k + 1)

\* std::uninitialized_move_n(sbuf + si, n, dbuf + di)
RECURSIVE UninitializedMoveN(_, _, _, _, _, _, _)
UninitializedMoveN(m, sbuf, si, n, dbuf, di, k) ==
    IF k >= n THEN m
    ELSE LET m1 == MoveConstruct(m, sbuf, si + k, dbuf, di + k)
         IN IF ~Ok(m1) THEN DestroyN(m1, dbuf, di, k)
            ELSE UninitializedMoveN(m1, sbuf, si, n, dbuf, di, k + 1)

\* std::uninitialized_value_construct_n(buf + first, n)
RECURSIVE UninitializedValueConstructN(_, _, _, _, _)
UninitializedValueConstructN(m, buf, first, n, k) ==
    IF k >= n THEN m
    ELSE LET m1 == PlacementNew(m, buf, first + k, Default, "default_ctor", TRUE)
         IN IF ~Ok(m1) THEN DestroyN(m1, buf, first, k)
            ELSE UninitializedValueConstructN(m1, buf, first, n, k + 1)

\* std::copy(sbuf + 0, sbuf + n, dbuf + 0): copy assignment, front to back.
RECURSIVE StdCopy(_, _, _, _, _)
StdCopy(m, sbuf, n, dbuf, k) ==
    IF k >= n THEN m
    ELSE LET m1 == CopyAssign(m, sbuf, k, dbuf, k)
         IN IF ~Ok(m1) THEN m1 ELSE StdCopy(m1, sbuf, n, dbuf, k + 1)

\* Mutant of StdMove: the range is walked back to front.
RECURSIVE StdMove_BackToFront(_, _, _, _, _)
StdMove_BackToFront(m, buf, first, lst, dest) ==
    IF first >= lst THEN m
    ELSE LET m1 == MoveAssign(m, buf, lst - 1, buf, dest + (lst - 1 - first))
         IN IF ~Ok(m1) THEN m1 ELSE StdMove_BackToFront(m1, buf, first, lst - 1, dest)

\* std::move(buf + first, buf + lst, buf + dest): move assignment, front to back.
RECURSIVE StdMove(_, _, _, _, _)
StdMove(m, buf, first, lst, dest) ==
    IF first >= lst THEN m
    ELSE LET m1 == MoveAssign(m, buf, first, buf, dest)
         IN IF ~Ok(m1) THEN m1 ELSE StdMove(m1, buf, first + 1, lst, dest + 1)

\* Mutant of StdMoveBackward: the range is walked front to back.
StdMoveBackward_FrontToBack(m, buf, first, lst, dlast) ==
    StdMove(m, buf, first, lst, dlast - (lst - first))

\* std::move_backward(buf + first, buf + lst, buf + dlast): move assignment, back to front.
RECURSIVE StdMoveBackward(_, _, _, _, _)
StdMoveBackward(m, buf, first, lst, dlast) ==
    IF first >= lst THEN m
    ELSE LET m1 == MoveAssign(m, buf, lst - 1, buf, dlast - 1)
         IN IF ~Ok(m1) THEN m1 ELSE StdMoveBackward(m1, buf, first, lst - 1, dlast - 1)

\* Vector::UninitializedMoveOrCopy(from, size, to)
UninitializedMoveOrCopy(m, sbuf, si, n, dbuf, di) ==
    IF m.nothrowMove
    THEN UninitializedMoveN(m, sbuf, si, n, dbuf, di, 0)
    ELSE UninitializedCopyN(m, sbuf, si, n, dbuf, di, 0)

-----------------------------------------------------------------------------
(* Vector<T>: every operator takes the machine m and the Vector objects V   *)
(* and returns the machine, the objects and the returned index afterwards.  *)

\* What a call returns: <<i>> for a cursor or reference to element i, <<>> for nothing.
NoRet == <<>>

Res(m, V, ret) == [m |-> m, vec |-> V, ret |-> ret]

RawMemoryOf(buf, cap) == [buffer |-> buf, capacity |-> cap]

EmptyRawMemory == RawMemoryOf(Null, 0)

Dead == [alive |-> FALSE, data |-> EmptyRawMemory, size |-> 0]

\* A throwing operation on a local object (T tmp = T(args...)).
LocalConstruct(m, what) == IF m.budget = 0 THEN Raise(m, what) ELSE Spend(m)

\* Args&&... args of EmplaceBack and Emplace: a value the caller owns, or an lvalue
\* reference to the element at buf + idx (v.PushBack(v[i]), v.Insert(pos, v[i])).
ByValue(v) == [ref |-> FALSE, buf |-> Null, idx |-> 0, val |-> v]

ByRef(buf, i) == [ref |-> TRUE, buf |-> buf, idx |-> i, val |-> Raw]

\* What T(std::forward<Args>(args)...) reads when it runs on machine m.
ArgValue(m, args) == IF args.ref THEN Read(m.heap, args.buf, args.idx) ELSE args.val

\* new (buf + i) T(std::forward<Args>(args)...)
ConstructFromArgs(m, buf, i, args) ==
    LET m1 == PlacementNew(m, buf, i, ArgValue(m, args), "ctor", TRUE)
    IN IF ~Ok(m1) THEN m1
       ELSE [m1 EXCEPT !.ub = @ \/ (args.ref /\ ~IsLive(m.heap, args.buf, args.idx))]

\* size_t arithmetic
SizeSub(a, b) == (a - b) % (SizeMax + 1)

\* Vector(): data_ and size_ take their default member initializers.
VectorDefault(m, V, x) ==
    Res(m, [V EXCEPT ![x] = [alive |-> TRUE, data |-> EmptyRawMemory, size |-> 0]], NoRet)

\* explicit Vector(size_t size)
VectorSized(m, V, x, n) ==
    LET m1 == Allocate(m, n)
        m2 == UninitializedValueConstructN(m1, m1.ptr, 0, n, 0)
    IN IF ~Ok(m1) THEN Res(m1, V, NoRet)
       ELSE IF ~Ok(m2) THEN Res(Deallocate(m2, m1.ptr), V, NoRet)
       ELSE Res(m2, [V EXCEPT ![x] = [alive |-> TRUE, data |-> RawMemoryOf(m1.ptr, n),
                                      size |-> n]], NoRet)

\* Mutant of VectorCopy: the copy takes over other's buffer instead of allocating.
VectorCopy_Shallow(m, V, x, y) ==
    Res(m, [V EXCEPT ![x] = [alive |-> TRUE, data |-> V[y].data, size |-> V[y].size]], NoRet)

\* Vector(const Vector& other)
VectorCopy(m, V, x, y) ==
    LET other == V[y]
        m1 == Allocate(m, other.size)
        m2 == UninitializedCopyN(m1, other.data.buffer, 0, other.size, m1.ptr, 0, 0)
    IN IF ~Ok(m1) THEN Res(m1, V, NoRet)
       ELSE IF ~Ok(m2) THEN Res(Deallocate(m2, m1.ptr), V, NoRet)
       ELSE Res(m2, [V EXCEPT ![x] = [alive |-> TRUE,
                                      data |-> RawMemoryOf(m1.ptr, other.size),
                                      size |-> other.size]], NoRet)

\* Mutant of RawMemoryMove: other keeps its buffer_ and capacity_.
RawMemoryMove_KeepsSource(other) == <<RawMemoryOf(other.buffer, other.capacity), other>>

\* RawMemory(RawMemory&& other): the pair <<new object, other afterwards>>.
RawMemoryMove(other) == <<RawMemoryOf(other.buffer, other.capacity), EmptyRawMemory>>

\* RawMemory& operator=(RawMemory&& rhs) on an object this other than rhs: the
\* machine, this and rhs afterwards.
RawMemoryMoveAssign(m, this, rhs) ==
    [m |-> Deallocate(m, this.buffer),
     this |-> RawMemoryOf(rhs.buffer, rhs.capacity),
     rhs |-> EmptyRawMemory]

\* Vector(Vector&& other)
VectorMove(m, V, x, y) ==
    LET other == V[y]
        moved == RawMemoryMove(other.data)
    IN Res(m, [V EXCEPT ![x] = [alive |-> TRUE, data |-> moved[1], size |-> other.size],
                        ![y] = [alive |-> TRUE, data |-> moved[2], size |-> 0]], NoRet)

\* ~Vector(), then ~RawMemory() of data_
VectorDestroy(m, V, x) ==
    LET me == V[x]
        m1 == DestroyN(m, me.data.buffer, 0, me.size)
        m2 == Deallocate(m1, me.data.buffer)
    IN Res(m2, [V EXCEPT ![x] = Dead], NoRet)

\* Mutant of NewCapacity: the capacity is not doubled.
NewCapacity_NoDoubling(size) == IF size = 0 THEN 1 ELSE size

\* size_t new_capacity = size_ == 0 ? 1 : size_ * 2;
NewCapacity(size) == IF size = 0 THEN 1 ELSE size * 2

\* Mutant of EmplaceBackGrow: the old elements are migrated before the new element
\* is constructed.
EmplaceBackGrow_MigrateFirst(m, V, x, args) ==
    LET me == V[x]
        new_capacity == NewCapacity(me.size)
        m1 == Allocate(m, new_capacity)
        new_data == RawMemoryOf(m1.ptr, new_capacity)
        m2 == UninitializedMoveOrCopy(m1, me.data.buffer, 0, me.size, new_data.buffer, 0)
        m3 == ConstructFromArgs(m2, new_data.buffer, me.size, args)
        h3 == DestroyN(m3, new_data.buffer, 0, me.size)
        m4 == DestroyN(m3, me.data.buffer, 0, me.size)
        m5 == Deallocate(m4, me.data.buffer)
    IN IF ~Ok(m1) THEN Res(m1, V, NoRet)
       ELSE IF ~Ok(m2) THEN Res(Deallocate(m2, new_data.buffer), V, NoRet)
       ELSE IF ~Ok(m3) THEN Res(Deallocate(h3, new_data.buffer), V, NoRet)
       ELSE Res(m5, [V EXCEPT ![x].data = new_data, ![x].size = me.size + 1], <<me.size>>)

\* The growth branch of EmplaceBack.
EmplaceBackGrow(m, V, x, args) ==
    LET me == V[x]
        new_capacity == NewCapacity(me.size)
        m1 == Allocate(m, new_capacity)
        new_data == RawMemoryOf(m1.ptr, new_capacity)
        m2 == ConstructFromArgs(m1, new_data.buffer, me.size, args)
        m3 == UninitializedMoveOrCopy(m2, me.data.buffer, 0, me.size, new_data.buffer, 0)
        m4 == DestroyN(m3, me.data.buffer, 0, me.size)
        \* data_.Swap(new_data); new_data, now the old block, goes out of scope
        m5 == Deallocate(m4, me.data.buffer)
    IN IF ~Ok(m1) THEN Res(m1, V, NoRet)
       ELSE IF ~Ok(m2) THEN Res(Deallocate(m2, new_data.buffer), V, NoRet)
       ELSE IF ~Ok(m3) THEN Res(Deallocate(m3, new_data.buffer), V, NoRet)
       ELSE Res(m5, [V EXCEPT ![x].data = new_data, ![x].size = me.size + 1], <<me.size>>)

\* Mutant of EmplaceBack: every append takes the growth branch.
EmplaceBack_AlwaysGrows(m, V, x, args) == EmplaceBackGrow(m, V, x, args)

\* T& EmplaceBack(Args&&... args); PushBack forwards to it.
EmplaceBack(m, V, x, args) ==
    LET me == V[x]
        m1 == ConstructFromArgs(m, me.data.buffer, me.size, args)
    IN IF me.size < me.data.capacity
       THEN IF ~Ok(m1) THEN Res(m1, V, NoRet)
            ELSE Res(m1, [V EXCEPT ![x].size = me.size + 1], <<me.size>>)
       ELSE EmplaceBackGrow(m, V, x, args)

\* Mutant of EmplaceInPlace: tmp is constructed from args after the shift.
EmplaceInPlace_ShiftFirst(m, V, x, before, args) ==
    LET me == V[x]
        buf == me.data.buffer
        m1 == MoveConstruct(m, buf, me.size - 1, buf, me.size)
        m2 == StdMoveBackward(m1, buf, before, me.size - 1, me.size)
        tmp == ArgValue(m2, args)
        m3 == LocalConstruct(m2, "ctor")
        m4 == AssignValue(m3, buf, before, tmp)
    IN IF ~Ok(m1) THEN Res(m1, V, NoRet)
       ELSE IF ~Ok(m2) THEN Res(m2, V, NoRet)
       ELSE IF ~Ok(m3) THEN Res(m3, V, NoRet)
       ELSE IF ~Ok(m4) THEN Res(m4, V, NoRet)
       ELSE Res(m4, [V EXCEPT ![x].size = me.size + 1], <<before>>)

\* The branch of Emplace with room left: size_ < data_.Capacity().
EmplaceInPlace(m, V, x, before, args) ==
    LET me == V[x]
        buf == me.data.buffer
        \* T tmp = T(std::forward<Args>(args)...);
        tmp == ArgValue(m, args)
        m1 == LocalConstruct(m, "ctor")
        m2 == MoveConstruct(m1, buf, me.size - 1, buf, me.size)
        m3 == StdMoveBackward(m2, buf, before, me.size - 1, me.size)
        m4 == AssignValue(m3, buf, before, tmp)
    IN IF ~Ok(m1) THEN Res(m1, V, NoRet)
       ELSE IF ~Ok(m2) THEN Res(m2, V, NoRet)
       ELSE IF ~Ok(m3) THEN Res(m3, V, NoRet)
       ELSE IF ~Ok(m4) THEN Res(m4, V, NoRet)
       ELSE Res(m4, [V EXCEPT ![x].size = me.size + 1], <<before>>)

\* The branch of Emplace that grows.
EmplaceGrow(m, V, x, before, args) ==
    LET me == V[x]
        after == SizeSub(SizeSub(me.size, before), 1)
        new_capacity == NewCapacity(me.size)
        m1 == Allocate(m, new_capacity)
        new_data == RawMemoryOf(m1.ptr, new_capacity)
        m2 == ConstructFromArgs(m1, new_data.buffer, before, args)
        m3 == UninitializedMoveOrCopy(m2, me.data.buffer, 0, before, new_data.buffer, 0)
        \* catch (...) { (new_data + size_)->~T(); throw; }
        h3 == DestroyAt(m3, new_data.buffer, me.size)
        m4 == UninitializedMoveOrCopy(m3, me.data.buffer, before, after + 1,
                                      new_data.buffer, before + 1)
        \* catch (...) { std::destroy_n(new_data.GetAddress(), before); throw; }
        h4 == DestroyN(m4, new_data.buffer, 0, before)
        m5 == DestroyN(m4, me.data.buffer, 0, me.size)
        m6 == Deallocate(m5, me.data.buffer)
    IN IF ~Ok(m1) THEN Res(m1, V, NoRet)
       ELSE IF ~Ok(m2) THEN Res(Deallocate(m2, new_data.buffer), V, NoRet)
       ELSE IF ~Ok(m3) THEN Res(Deallocate(h3, new_data.buffer), V, NoRet)
       ELSE IF ~Ok(m4) THEN Res(Deallocate(h4, new_data.buffer), V, NoRet)
       ELSE Res(m6, [V EXCEPT ![x].data = new_data, ![x].size = me.size + 1], <<before>>)

\* iterator Emplace(const_iterator pos, Args&&... args), pos = begin() + before;
\* Insert forwards to it.
Emplace(m, V, x, before, args) ==
    LET me == V[x]
        back == EmplaceBack(m, V, x, args)
    IN IF ~(before >= 0 /\ before <= me.size) THEN Res(Raise(m, "assert"), V, NoRet)
       ELSE IF before = me.size
            THEN Res(back.m, back.vec, IF Ok(back.m) THEN <<before>> ELSE NoRet)
       ELSE IF me.size < me.data.capacity THEN EmplaceInPlace(m, V, x, before, args)
       ELSE EmplaceGrow(m, V, x, before, args)

\* void PopBack() noexcept
PopBack(m, V, x) ==
    LET me == V[x]
        m1 == DestroyN(m, me.data.buffer, SizeSub(me.size, 1), 1)
    IN Res(m1, [V EXCEPT ![x].size = SizeSub(me.size, 1)], NoRet)

\* iterator Erase(const_iterator pos), pos = begin() + p
Erase(m, V, x, p) ==
    LET me == V[x]
        buf == me.data.buffer
        m1 == StdMove(m, buf, p + 1, me.size, p)
        m2 == DestroyAt(m1, buf, me.size - 1)
    IN IF ~(p >= 0 /\ p < me.size) THEN Res(Raise(m, "assert"), V, NoRet)
       ELSE IF ~Ok(m1) THEN Res(m1, V, NoRet)
       ELSE Res(m2, [V EXCEPT ![x].size = me.size - 1], <<p>>)

\* void Swap(Vector& other) noexcept: RawMemory::Swap and std::swap of the sizes.
Swap(m, V, x, y) ==
    Res(m, [V EXCEPT ![x] = [alive |-> TRUE, data |-> V[y].data, size |-> V[y].size],
                     ![y] = [alive |-> TRUE, data |-> V[x].data, size |-> V[x].size]], NoRet)

\* Mutant of CopyAssignGrow: the Vector is cleared before the copy is allocated.
CopyAssignGrow_ClearFirst(m, V, x, y) ==
    LET me == V[x]
        rhs == V[y]
        m0 == DestroyN(m, me.data.buffer, 0, me.size)
        m1 == Allocate(m0, rhs.size)
        m2 == UninitializedCopyN(m1, rhs.data.buffer, 0, rhs.size, m1.ptr, 0, 0)
        m4 == Deallocate(m2, me.data.buffer)
    IN IF ~Ok(m1) THEN Res(m1, [V EXCEPT ![x].size = 0], NoRet)
       ELSE IF ~Ok(m2) THEN Res(Deallocate(m2, m1.ptr), [V EXCEPT ![x].size = 0], NoRet)
       ELSE Res(m4, [V EXCEPT ![x].data = RawMemoryOf(m1.ptr, rhs.size),
                              ![x].size = rhs.size], NoRet)

\* Vector& operator=(const Vector& rhs), the branch rhs.size_ > data_.Capacity():
\* Vector rhs_copy(rhs); Swap(rhs_copy); and rhs_copy is destroyed.
CopyAssignGrow(m, V, x, y) ==
    LET me == V[x]
        rhs == V[y]
        m1 == Allocate(m, rhs.size)
        m2 == UninitializedCopyN(m1, rhs.data.buffer, 0, rhs.size, m1.ptr, 0, 0)
        m3 == DestroyN(m2, me.data.buffer, 0, me.size)
        m4 == Deallocate(m3, me.data.buffer)
    IN IF ~Ok(m1) THEN Res(m1, V, NoRet)
       ELSE IF ~Ok(m2) THEN Res(Deallocate(m2, m1.ptr), V, NoRet)
       ELSE Res(m4, [V EXCEPT ![x].data = RawMemoryOf(m1.ptr, rhs.size),
                              ![x].size = rhs.size], NoRet)

\* Mutant of CopyAssignInPlace: the excess suffix is not destroyed when rhs is smaller.
CopyAssignInPlace_KeepsTail(m, V, x, y) ==
    LET me == V[x]
        rhs == V[y]
        buf == me.data.buffer
        s1 == StdCopy(m, rhs.data.buffer, rhs.size, buf, 0)
        g1 == StdCopy(m, rhs.data.buffer, me.size, buf, 0)
        g2 == UninitializedCopyN(g1, rhs.data.buffer, me.size, rhs.size - me.size,
                                 buf, me.size, 0)
    IN IF rhs.size < me.size
       THEN IF ~Ok(s1) THEN Res(s1, V, NoRet)
            ELSE Res(s1, [V EXCEPT ![x].size = rhs.size], NoRet)
       ELSE IF ~Ok(g1) THEN Res(g1, V, NoRet)
            ELSE IF ~Ok(g2) THEN Res(g2, V, NoRet)
            ELSE Res(g2, [V EXCEPT ![x].size = rhs.size], NoRet)

\* Vector& operator=(const Vector& rhs), the branch that keeps the storage.
CopyAssignInPlace(m, V, x, y) ==
    LET me == V[x]
        rhs == V[y]
        buf == me.data.buffer
        s1 == StdCopy(m, rhs.data.buffer, rhs.size, buf, 0)
        s2 == DestroyN(s1, buf, rhs.size, me.size - rhs.size)
        g1 == StdCopy(m, rhs.data.buffer, me.size, buf, 0)
        g2 == UninitializedCopyN(g1, rhs.data.buffer, me.size, rhs.size - me.size,
                                 buf, me.size, 0)
    IN IF rhs.size < me.size
       THEN IF ~Ok(s1) THEN Res(s1, V, NoRet)
            ELSE Res(s2, [V EXCEPT ![x].size = rhs.size], NoRet)
       ELSE IF ~Ok(g1) THEN Res(g1, V, NoRet)
            ELSE IF ~Ok(g2) THEN Res(g2, V, NoRet)
            ELSE Res(g2, [V EXCEPT ![x].size = rhs.size], NoRet)

\* Vector& operator=(const Vector& rhs)
OpCopyAssign(m, V, x, y) ==
    IF x = y THEN Res(m, V, NoRet)
    ELSE IF V[y].size > V[x].data.capacity THEN CopyAssignGrow(m, V, x, y)
    ELSE CopyAssignInPlace(m, V, x, y)

\* Mutant of OpMoveAssign: rhs.size_ = 0 is left out.
OpMoveAssign_SwapOnly(m, V, x, y) ==
    IF x = y THEN Res(m, V, NoRet) ELSE Swap(m, V, x, y)

\* Vector& operator=(Vector&& rhs) noexcept
OpMoveAssign(m, V, x, y) ==
    LET swapped == Swap(m, V, x, y)
    IN IF x = y THEN Res(m, V, NoRet)
       ELSE Res(m, [swapped.vec EXCEPT ![y].size = 0], NoRet)

\* Mutant of Reserve: the elements are not migrated to the new block.
Reserve_NoMigration(m, V, x, new_capacity) ==
    LET me == V[x]
        m1 == Allocate(m, new_capacity)
        new_data == RawMemoryOf(m1.ptr, new_capacity)
        m2 == UninitializedValueConstructN(m1, new_data.buffer, 0, me.size, 0)
        m3 == DestroyN(m2, me.data.buffer, 0, me.size)
        m4 == Deallocate(m3, me.data.buffer)
    IN IF new_capacity <= me.data.capacity THEN Res(m, V, NoRet)
       ELSE IF ~Ok(m1) THEN Res(m1, V, NoRet)
       ELSE IF ~Ok(m2) THEN Res(Deallocate(m2, new_data.buffer), V, NoRet)
       ELSE Res(m4, [V EXCEPT ![x].data = new_data], NoRet)

\* void Reserve(size_t new_capacity)
Reserve(m, V, x, new_capacity) ==
    LET me == V[x]
        m1 == Allocate(m, new_capacity)
        new_data == RawMemoryOf(m1.ptr, new_capacity)
        m2 == UninitializedMoveOrCopy(m1, me.data.buffer, 0, me.size, new_data.buffer, 0)
        m3 == DestroyN(m2, me.data.buffer, 0, me.size)
        m4 == Deallocate(m3, me.data.buffer)
    IN IF new_capacity <= me.data.capacity THEN Res(m, V, NoRet)
       ELSE IF ~Ok(m1) THEN Res(m1, V, NoRet)
       ELSE IF ~Ok(m2) THEN Res(Deallocate(m2, new_data.buffer), V, NoRet)
       ELSE Res(m4, [V EXCEPT ![x].data = new_data], NoRet)

\* Mutant of Resize: shrinking only sets size_, the tail is not destroyed.
Resize_NoDestroy(m, V, x, new_size) ==
    LET me == V[x]
        r == Reserve(m, V, x, new_size)
        m2 == UninitializedValueConstructN(r.m, r.vec[x].data.buffer, me.size,
                                           new_size - me.size, 0)
    IN IF new_size = me.size THEN Res(m, V, NoRet)
       ELSE IF new_size < me.size THEN Res(m, [V EXCEPT ![x].size = new_size], NoRet)
       ELSE IF ~Ok(r.m) THEN r
       ELSE IF ~Ok(m2) THEN Res(m2, r.vec, NoRet)
       ELSE Res(m2, [r.vec EXCEPT ![x].size = new_size], NoRet)

\* void Resize(size_t new_size)
Resize(m, V, x, new_size) ==
    LET me == V[x]
        m1 == DestroyN(m, me.data.buffer, new_size, me.size - new_size)
        r == Reserve(m, V, x, new_size)
        m2 == UninitializedValueConstructN(r.m, r.vec[x].data.buffer, me.size,
                                           new_size - me.size, 0)
    IN IF new_size = me.size THEN Res(m, V, NoRet)
       ELSE IF new_size < me.size THEN Res(m1, [V EXCEPT ![x].size = new_size], NoRet)
       ELSE IF ~Ok(r.m) THEN r
       ELSE IF ~Ok(m2) THEN Res(m2, r.vec, NoRet)
       ELSE Res(m2, [r.vec EXCEPT ![x].size = new_size], NoRet)

\* T& operator[](size_t index) noexcept, through RawMemory::operator[]
Index(m, V, x, index) ==
    IF ~(index < V[x].size) THEN Res(Raise(m, "assert"), V, NoRet)
    ELSE IF ~(index < V[x].data.capacity) THEN Res(Raise(m, "assert"), V, NoRet)
    ELSE Res(m, V, <<index>>)

-----------------------------------------------------------------------------
(* The state machine: one action per member function *)

\* What a caller can observe of a Vector: Size(), Capacity(), begin() and [0, Size()).
Abs(h, vr) ==
    [alive |-> vr.alive, size |-> vr.size, capacity |-> vr.data.capacity,
     buffer |-> vr.data.buffer,
     elems |-> [i \in 1..(IF vr.size <= vr.data.capacity THEN vr.size ELSE 0) |->
                   Read(h, vr.data.buffer, i - 1)]]

Start(budget, oom) == Machine(heap, store, budget, oom, nothrowMove)

Faults(m) == [ub |-> m.ub, leak |-> m.leak, onlive |-> m.onlive, dfree |-> m.dfree]

NoFault == [ub |-> FALSE, leak |-> FALSE, onlive |-> FALSE, dfree |-> FALSE]

\* The call whose result is r takes place; a failed assert aborts the process.
Step(r) ==
    /\ ~aborted
    /\ heap' = r.m.heap
    /\ vec' = r.vec
    /\ aborted' = (r.m.exc = "assert")
    /\ fault' = Faults(r.m)
    /\ UNCHANGED <<nothrowMove, store>>

Call(r) == Step(r) /\ UNCHANGED <<appended, relocations>>

\* The class invariant of Vector x: size_ <= capacity, the cells [0, size_) of its
\* block hold live elements and the cells [size_, capacity) hold none.
Invariant(h, vr) ==
    /\ vr.size <= vr.data.capacity
    /\ vr.data.capacity > 0 =>
           /\ vr.data.buffer # Null /\ h[vr.data.buffer].alloc
           /\ Len(h[vr.data.buffer].cell) = vr.data.capacity
    /\ \A i \in 0..(vr.data.capacity - 1) : IsLive(h, vr.data.buffer, i) <=> i < vr.size

\* A Vector that can be destroyed: constructed, and its size_ has not wrapped.
Alive(x) == vec[x].alive /\ vec[x].size <= vec[x].data.capacity

\* A Vector the model goes on calling: the model follows a Vector up to the first
\* call that leaves it outside its class invariant, and then only destroys it.
Usable(x) == Alive(x) /\ Invariant(heap, vec[x])

\* No Vector is constructed yet and the free store is empty.
InitWith(cells) ==
    /\ heap = [b \in BlockIds |-> FreeBlock]
    /\ vec = [x \in Vecs |-> Dead]
    /\ nothrowMove \in BOOLEAN
    /\ store = cells
    /\ aborted = FALSE
    /\ fault = NoFault
    /\ appended = <<>>
    /\ relocations = 0

Init == InitWith(MaxCells)

InitElem == InitWith(MaxCellsOne)

\* The arguments a caller passes to an append or insert on Vector x: a value of its
\* own, or one of x's elements by reference.
ArgsOf(x) ==
    {ByValue(v) : v \in Vals}
    \cup {ByRef(vec[x].data.buffer, i) : i \in 0..(vec[x].size - 1)}

ConstructDefault(VS, BS) ==
    \E x \in VS :
        /\ ~vec[x].alive
        /\ Call(VectorDefault(Start(NoFail, FALSE), vec, x))

ConstructSized(VS, BS) ==
    \E x \in VS, n \in 0..MaxCap, f \in BS, o \in BOOLEAN :
        /\ ~vec[x].alive
        /\ Call(VectorSized(Start(f, o), vec, x, n))

ConstructCopy(VS, BS) ==
    \E x \in VS, y \in VS, f \in BS, o \in BOOLEAN :
        /\ ~vec[x].alive /\ Usable(y)
        /\ Call(VectorCopy(Start(f, o), vec, x, y))

ConstructMove(VS, BS) ==
    \E x \in VS, y \in VS :
        /\ ~vec[x].alive /\ Usable(y)
        /\ Call(VectorMove(Start(NoFail, FALSE), vec, x, y))

Destroy(VS, BS) ==
    \E x \in VS :
        /\ Alive(x)
        /\ Call(VectorDestroy(Start(NoFail, FALSE), vec, x))

DoEmplaceBack(VS, BS) ==
    \E x \in VS, f \in BS, o \in BOOLEAN :
        /\ Usable(x)
        /\ \E args \in ArgsOf(x) :
               Call(EmplaceBack(Start(f, o), vec, x, args))

DoEmplace(VS, BS) ==
    \E x \in VS, f \in BS, o \in BOOLEAN :
        /\ Usable(x)
        /\ \E p \in 0..vec[x].size, args \in ArgsOf(x) :
               Call(Emplace(Start(f, o), vec, x, p, args))

DoPopBack(VS, BS) ==
    \E x \in VS :
        /\ Usable(x) /\ vec[x].size > 0
        /\ Call(PopBack(Start(NoFail, FALSE), vec, x))

DoErase(VS, BS) ==
    \E x \in VS, f \in BS, o \in BOOLEAN :
        /\ Usable(x)
        /\ \E p \in 0..(vec[x].size - 1) :
               Call(Erase(Start(f, o), vec, x, p))

DoCopyAssign(VS, BS) ==
    \E x \in VS, y \in VS, f \in BS, o \in BOOLEAN :
        /\ Usable(x) /\ Usable(y)
        /\ Call(OpCopyAssign(Start(f, o), vec, x, y))

DoMoveAssign(VS, BS) ==
    \E x \in VS, y \in VS :
        /\ Usable(x) /\ Usable(y)
        /\ Call(OpMoveAssign(Start(NoFail, FALSE), vec, x, y))

DoSwap(VS, BS) ==
    \E x \in VS, y \in VS :
        /\ Usable(x) /\ Usable(y)
        /\ Call(Swap(Start(NoFail, FALSE), vec, x, y))

DoReserve(VS, BS) ==
    \E x \in VS, n \in 0..MaxCap, f \in BS, o \in BOOLEAN :
        /\ Usable(x)
        /\ Call(Reserve(Start(f, o), vec, x, n))

DoResize(VS, BS) ==
    \E x \in VS, n \in 0..MaxCap, f \in BS, o \in BOOLEAN :
        /\ Usable(x)
        /\ Call(Resize(Start(f, o), vec, x, n))

DoIndex(VS, BS) ==
    \E x \in VS :
        /\ Usable(x)
        /\ \E i \in 0..(vec[x].size - 1) :
               Call(Index(Start(NoFail, FALSE), vec, x, i))

Next ==
    \/ ConstructDefault(Vecs, {NoFail})
    \/ ConstructSized(Vecs, {NoFail})
    \/ ConstructCopy(Vecs, {NoFail})
    \/ ConstructMove(Vecs, {NoFail})
    \/ Destroy(Vecs, {NoFail})
    \/ DoEmplaceBack(Vecs, {NoFail})
    \/ DoEmplace(Vecs, {NoFail})
    \/ DoPopBack(Vecs, {NoFail})
    \/ DoErase(Vecs, {NoFail})
    \/ DoCopyAssign(Vecs, {NoFail})
    \/ DoMoveAssign(Vecs, {NoFail})
    \/ DoSwap(Vecs, {NoFail})
    \/ DoReserve(Vecs, {NoFail})
    \/ DoResize(Vecs, {NoFail})
    \/ DoIndex(Vecs, {NoFail})

\* Two Vectors of a T whose operations do not throw; operator new may.
Spec == Init /\ [][Next]_vars

One == {"a"}

NextElem ==
    \/ ConstructDefault(One, Budgets)
    \/ ConstructSized(One, Budgets)
    \/ Destroy(One, Budgets)
    \/ DoEmplaceBack(One, Budgets)
    \/ DoEmplace(One, Budgets)
    \/ DoPopBack(One, Budgets)
    \/ DoErase(One, Budgets)
    \/ DoCopyAssign(One, Budgets)
    \/ DoMoveAssign(One, Budgets)
    \/ DoSwap(One, Budgets)
    \/ DoReserve(One, Budgets)
    \/ DoResize(One, Budgets)
    \/ DoIndex(One, Budgets)

\* One Vector of a T whose operations may throw.
SpecElem == InitElem /\ [][NextElem]_vars

-----------------------------------------------------------------------------
(* Calls outside the preconditions *)

\* PopBack() on an empty Vector.
PopBackEmpty(VS) ==
    \E x \in VS :
        /\ Usable(x) /\ vec[x].size = 0
        /\ Call(PopBack(Start(NoFail, FALSE), vec, x))

\* operator[](index) with index >= Size().
IndexOutOfRange(VS) ==
    \E x \in VS :
        /\ Usable(x)
        /\ \E i \in vec[x].size..MaxCap :
               Call(Index(Start(NoFail, FALSE), vec, x, i))

\* Erase(begin() + p) with p >= Size().
EraseOutOfRange(VS) ==
    \E x \in VS :
        /\ Usable(x)
        /\ \E p \in vec[x].size..MaxCap :
               Call(Erase(Start(NoFail, FALSE), vec, x, p))

\* Emplace(begin() + p, v) with p > Size().
EmplaceOutOfRange(VS) ==
    \E x \in VS, v \in Vals :
        /\ Usable(x)
        /\ \E p \in (vec[x].size + 1)..(MaxCap + 1) :
               Call(Emplace(Start(NoFail, FALSE), vec, x, p, ByValue(v)))

NextContract ==
    \/ NextElem
    \/ PopBackEmpty(One)
    \/ IndexOutOfRange(One)
    \/ EraseOutOfRange(One)
    \/ EmplaceOutOfRange(One)

\* One Vector whose caller also breaks the preconditions.
SpecContract == InitElem /\ [][NextContract]_vars

-----------------------------------------------------------------------------
(* Runs of appends to one Vector that starts empty *)

\* Vector<T> a; with room in the store for every growth of the run.
InitAppends ==
    /\ heap = [b \in BlockIds |-> FreeBlock]
    /\ vec = [x \in Vecs |-> IF x = "a"
                               THEN VectorDefault(Machine(heap, 0, NoFail, FALSE, TRUE),
                                                  [z \in Vecs |-> Dead], "a").vec[x]
                               ELSE Dead]
    /\ nothrowMove \in BOOLEAN
    /\ store = 3 * MaxAppends
    /\ aborted = FALSE
    /\ fault = NoFault
    /\ appended = <<>>
    /\ relocations = 0

\* a.EmplaceBack(v) or a.PushBack(v); a call that throws appends nothing.
AppendOnly ==
    \E v \in Vals, f \in Budgets, o \in BOOLEAN :
        LET r == EmplaceBack(Start(f, o), vec, "a", ByValue(v))
        IN /\ Usable("a") /\ vec["a"].size < MaxAppends
           /\ Step(r)
           /\ appended' = IF Ok(r.m) THEN Append(appended, v) ELSE appended
           /\ relocations' = IF Ok(r.m) THEN relocations + r.m.ncons ELSE relocations

NextAppends == AppendOnly

SpecAppends == InitAppends /\ [][NextAppends]_vars

-----------------------------------------------------------------------------
(* The claims.  A claim about what a call does is stated over every call   *)
(* that can be made in a reachable state: the formula runs the member       *)
(* function on the state and compares the state before and after.           *)

Elems(h, vr) == Abs(h, vr).elems

\* A call in which nothing is made to fail.
Quiet == Start(NoFail, FALSE)

\* C1: after every sequence of operations called within their preconditions and
\* completing normally, every Vector has 0 <= size <= capacity, the cells [0, size)
\* of its block hold live elements and the cells [size, capacity) hold none.
C1_ClassInvariant == \A x \in Vecs : vec[x].alive => Invariant(heap, vec[x])

\* C2: whenever a block is released, none of its cells holds a live element.
C2_NoLiveCellAtRelease == ~fault.leak

\* What Insert(begin() + p, v) promises of its result r.
InsertPost(x, p, v, r) ==
    LET pre == Elems(heap, vec[x])
        post == Elems(r.m.heap, r.vec[x])
    IN /\ r.vec[x].size = vec[x].size + 1
       /\ Len(post) = Len(pre) + 1
       /\ \A i \in 1..p : post[i] = pre[i]
       /\ post[p + 1] = v
       /\ \A i \in (p + 1)..Len(pre) : post[i + 1] = pre[i]
       /\ r.ret = <<p>>

\* C3: for every position 0 <= p <= size and every value v, in each of the three
\* cases of Insert/Emplace, after Insert(p, v) the elements [0, p) are unchanged,
\* the element at p is v, each element formerly at i >= p is at i + 1, size has
\* grown by one and the returned cursor is index p.
C3_Insert ==
    \A x \in Vecs : Usable(x) =>
        \A p \in 0..vec[x].size, v \in Vals :
            LET r == Emplace(Quiet, vec, x, p, ByValue(v))
            IN Ok(r.m) => InsertPost(x, p, v, r)

\* C3 happens: an Insert in the middle of a full Vector succeeds (and so do, in the
\* same state, the Insert at the end and, after it, the Insert with room left).
C3_Witness ==
    \E x \in Vecs :
        /\ Usable(x) /\ vec[x].size = vec[x].data.capacity /\ vec[x].size >= 2
        /\ Elems(heap, vec[x])[1] # Elems(heap, vec[x])[2]
        /\ Ok(Emplace(Quiet, vec, x, 1, ByValue(1)).m)
        /\ Ok(Emplace(Quiet, vec, x, vec[x].size, ByValue(1)).m)
        /\ LET r == Emplace(Quiet, vec, x, 1, ByValue(1))
           IN Ok(Emplace(Machine(r.m.heap, store, NoFail, FALSE, nothrowMove),
                         r.vec, x, 1, ByValue(0)).m)

\* C4: for every position 0 <= p < size, after Erase(p) the element at p is gone,
\* the elements [0, p) keep their indices, each element formerly at i > p is at
\* i - 1, size has shrunk by one, capacity (and the block) is unchanged and the
\* vacated last cell holds no live element.
C4_Erase ==
    \A x \in Vecs : Usable(x) =>
        \A p \in 0..(vec[x].size - 1) :
            LET r == Erase(Quiet, vec, x, p)
                pre == Elems(heap, vec[x])
                post == Elems(r.m.heap, r.vec[x])
            IN /\ Ok(r.m)
               /\ r.vec[x].size = vec[x].size - 1
               /\ post = [i \in 1..(vec[x].size - 1) |-> IF i <= p THEN pre[i] ELSE pre[i + 1]]
               /\ r.vec[x].data = vec[x].data
               /\ ~IsLive(r.m.heap, vec[x].data.buffer, vec[x].size - 1)
               /\ \A i \in 0..(vec[x].size - 2) : IsLive(r.m.heap, vec[x].data.buffer, i)
               /\ r.ret = <<p>>

\* C4 happens: an Erase before the end of a Vector of distinct neighbours.
C4_Witness ==
    \E x \in Vecs :
        /\ Usable(x) /\ vec[x].size >= 3
        /\ Elems(heap, vec[x])[2] # Elems(heap, vec[x])[3]
        /\ Ok(Erase(Quiet, vec, x, 1).m)

\* After the appends so far: size is their number, the elements are the appended
\* values in order and capacity >= size.
AppendsSoFar ==
    /\ vec["a"].size = Len(appended)
    /\ Elems(heap, vec["a"]) = appended
    /\ vec["a"].data.capacity >= vec["a"].size

\* C5: over every run of N appends from an empty Vector the size is N, the elements
\* are the appended values in append order, capacity never decreases from one
\* append to the next and capacity >= size after every append.
C5_Appends ==
    [][AppendsSoFar' /\ vec'["a"].data.capacity >= vec["a"].data.capacity]_vars

\* C5 happens: a run of MaxAppends appends that has grown the block several times.
C5_Witness ==
    /\ Len(appended) = MaxAppends
    /\ vec["a"].size = MaxAppends
    /\ vec["a"].data.capacity > MaxAppends

\* C6: if the constructor of the new element fails in an append that grows, the
\* Vector's size, capacity and elements are what they were before the call and the
\* newly allocated block has been released.
C6_CtorFailureInGrowth ==
    \A x \in Vecs : (Usable(x) /\ vec[x].size = vec[x].data.capacity) =>
        \A v \in Vals, f \in Budgets :
            LET r == EmplaceBack(Start(f, FALSE), vec, x, ByValue(v))
            IN r.m.exc = "ctor" =>
                  /\ r.vec = vec
                  /\ r.m.heap = heap
                  /\ r.m.ptr # Null /\ r.m.freed = {r.m.ptr}
                  /\ ~r.m.leak

\* C6 happens: the constructor fails in a growing append to a non-empty Vector.
C6_Witness ==
    \E x \in Vecs :
        /\ Usable(x) /\ vec[x].size = vec[x].data.capacity /\ vec[x].size >= 2
        /\ EmplaceBack(Start(0, FALSE), vec, x, ByValue(1)).m.exc = "ctor"

\* The calls that may allocate, made in the current state with operator new failing
\* (o) or not.
GrowthCalls(o) ==
    UNION {
        IF Usable(x)
        THEN {EmplaceBack(Start(NoFail, o), vec, x, args) : args \in ArgsOf(x)}
             \cup {Emplace(Start(NoFail, o), vec, x, p, args) : p \in 0..vec[x].size, args \in ArgsOf(x)}
             \cup {Reserve(Start(NoFail, o), vec, x, n) : n \in 0..MaxCap}
             \cup {Resize(Start(NoFail, o), vec, x, n) : n \in 0..MaxCap}
             \cup {OpCopyAssign(Start(NoFail, o), vec, x, y) : y \in {z \in Vecs : Usable(z)}}
        ELSE IF ~vec[x].alive
        THEN {VectorCopy(Start(NoFail, o), vec, x, y) : y \in {z \in Vecs : Usable(z)}}
             \cup {VectorSized(Start(NoFail, o), vec, x, n) : n \in 0..MaxCap}
        ELSE {}
        : x \in Vecs}

\* C7: if the allocation fails in a growth path (append, insert, Reserve,
\* copy construction, copy assignment to a smaller capacity), every Vector's size,
\* capacity and elements, the source's too, are what they were before the call.
C7_AllocFailure ==
    \A o \in BOOLEAN : \A r \in GrowthCalls(o) :
        r.m.exc = "bad_alloc" => (r.vec = vec /\ r.m.heap = heap)

\* C7 happens: the allocation fails in a copy assignment that has to grow a
\* non-empty Vector, and in an append and a Reserve that have to grow it.
C7_Witness ==
    \E x \in Vecs, y \in Vecs :
        /\ x # y /\ Usable(x) /\ Usable(y)
        /\ vec[x].size >= 1 /\ vec[x].size = vec[x].data.capacity
        /\ vec[y].size > vec[x].data.capacity
        /\ OpCopyAssign(Start(NoFail, TRUE), vec, x, y).m.exc = "bad_alloc"
        /\ EmplaceBack(Start(NoFail, TRUE), vec, x, ByValue(1)).m.exc = "bad_alloc"
        /\ Reserve(Start(NoFail, TRUE), vec, x, MaxCap).m.exc = "bad_alloc"

\* The call with result r was stopped by an assert before it changed anything.
Checked(r) == r.m.exc = "assert" /\ r.vec = vec /\ r.m.heap = heap

\* C8: each contract violation (indexing with index >= size, PopBack on an empty
\* Vector, Erase at a position >= size) is reported as a failed assertion before the
\* state is changed; PopBack on a Vector of size 0 never silently changes size.
C8_ViolationsAreChecked ==
    \A x \in Vecs : Usable(x) =>
        /\ \A i \in vec[x].size..MaxCap : Checked(Index(Quiet, vec, x, i))
        /\ \A p \in vec[x].size..MaxCap : Checked(Erase(Quiet, vec, x, p))
        /\ vec[x].size = 0 => Checked(PopBack(Quiet, vec, x))

\* The calls on Vector x alone, made in the current state.
CallsOn(x) ==
    UNION {
        {EmplaceBack(Start(NoFail, o), vec, x, args) : args \in ArgsOf(x)}
        \cup {Emplace(Start(NoFail, o), vec, x, p, args) : p \in 0..vec[x].size, args \in ArgsOf(x)}
        \cup {Erase(Start(NoFail, o), vec, x, p) : p \in 0..(vec[x].size - 1)}
        \cup {PopBack(Start(NoFail, o), vec, x) : p \in 1..Min(vec[x].size, 1)}
        \cup {Reserve(Start(NoFail, o), vec, x, n) : n \in 0..MaxCap}
        \cup {Resize(Start(NoFail, o), vec, x, n) : n \in 0..MaxCap}
        \cup {VectorDestroy(Start(NoFail, o), vec, x)}
        : o \in BOOLEAN}

\* C9: copy construction from other yields size = other.size, capacity = other.size
\* and equal elements in a block of its own; afterwards no call on one of the two
\* changes the size, capacity or elements of the other.
C9_Copy ==
    /\ \A x \in Vecs, y \in Vecs : (~vec[x].alive /\ Usable(y)) =>
           LET r == VectorCopy(Quiet, vec, x, y)
           IN Ok(r.m) =>
                 /\ r.vec[x].alive
                 /\ r.vec[x].size = vec[y].size
                 /\ r.vec[x].data.capacity = vec[y].size
                 /\ Elems(r.m.heap, r.vec[x]) = Elems(heap, vec[y])
                 /\ vec[y].size > 0 =>
                        /\ r.vec[x].data.buffer # Null
                        /\ r.vec[x].data.buffer # vec[y].data.buffer
                 /\ Abs(r.m.heap, r.vec[y]) = Abs(heap, vec[y])
    /\ \A x \in Vecs, z \in Vecs : (x # z /\ Usable(x) /\ Usable(z)) =>
           \A r \in CallsOn(x) : Abs(r.m.heap, r.vec[z]) = Abs(heap, vec[z])

\* C9 happens: a Vector and its copy, each in its own block, and a call that
\* changes one of them.
C9_Witness ==
    \E x \in Vecs, z \in Vecs :
        /\ x # z /\ Usable(x) /\ Usable(z)
        /\ vec[x].size >= 2 /\ vec[x].data.capacity = vec[x].size
        /\ Elems(heap, vec[x]) = Elems(heap, vec[z])
        /\ vec[x].data.buffer # vec[z].data.buffer
        /\ Ok(Erase(Quiet, vec, x, 0).m)

\* C10: after move construction and move assignment (destination and source
\* distinct) the destination's size, capacity, block and elements are the source's
\* before the move, the source has size 0 (and capacity 0 after move construction),
\* and no element was copy or move constructed: the free store is untouched.
C10_Move ==
    /\ \A x \in Vecs, y \in Vecs : (~vec[x].alive /\ Usable(y)) =>
           LET r == VectorMove(Quiet, vec, x, y)
           IN /\ Ok(r.m)
              /\ Abs(r.m.heap, r.vec[x]) = Abs(heap, vec[y])
              /\ r.vec[y].alive /\ r.vec[y].size = 0 /\ r.vec[y].data.capacity = 0
              /\ r.m.ncons = 0 /\ r.m.heap = heap
    /\ \A x \in Vecs, y \in Vecs : (x # y /\ Usable(x) /\ Usable(y)) =>
           LET r == OpMoveAssign(Quiet, vec, x, y)
           IN /\ Ok(r.m)
              /\ Abs(r.m.heap, r.vec[x]) = Abs(heap, vec[y])
              /\ r.vec[y].alive /\ r.vec[y].size = 0
              /\ r.m.ncons = 0 /\ r.m.heap = heap

\* C10 happens: a move assignment between two non-empty Vectors.
C10_Witness ==
    \E x \in Vecs, y \in Vecs :
        /\ x # y /\ Usable(x) /\ Usable(y)
        /\ vec[x].size >= 1 /\ vec[y].size >= 2
        /\ Ok(OpMoveAssign(Quiet, vec, x, y).m)

\* C11: Reserve(n) never decreases capacity and never alters size or element
\* values, whether it returns or throws: if n <= capacity nothing changes at all
\* (same block); if n > capacity and the call returns, the capacity is exactly n
\* and the elements [0, size) have the same values in the same order in a new block.
C11_Reserve ==
    \A x \in Vecs : Usable(x) =>
        \A n \in 0..MaxCap, f \in Budgets, o \in BOOLEAN :
            LET r == Reserve(Start(f, o), vec, x, n)
            IN /\ r.vec[x].data.capacity >= vec[x].data.capacity
               /\ r.vec[x].size = vec[x].size
               /\ Elems(r.m.heap, r.vec[x]) = Elems(heap, vec[x])
               /\ Invariant(r.m.heap, r.vec[x])
               /\ n <= vec[x].data.capacity => (Ok(r.m) /\ r.vec = vec /\ r.m.heap = heap)
               /\ (n > vec[x].data.capacity /\ Ok(r.m)) =>
                      /\ r.vec[x].data.capacity = n
                      /\ r.vec[x].data.buffer \notin {Null, vec[x].data.buffer}
                      /\ r.m.freed = {vec[x].data.buffer} \ {Null}
               /\ ~Ok(r.m) => (r.vec = vec /\ r.m.heap = heap)

\* C11 happens: a Reserve that moves a Vector of two different elements to a larger
\* block, in a state where a smaller Reserve changes nothing.
C11_Witness ==
    \E x \in Vecs :
        /\ Usable(x) /\ vec[x].size = 2 /\ vec[x].data.capacity = 2
        /\ Elems(heap, vec[x])[1] # Elems(heap, vec[x])[2]
        /\ LET r == Reserve(Quiet, vec, x, 3)
           IN Ok(r.m) /\ r.vec[x].data.capacity = 3
        /\ Reserve(Quiet, vec, x, 1).vec = vec

\* C12: Resize(n): if n = size nothing changes; if n < size the result is exactly
\* the first n elements, with the capacity (and the block) unchanged and the elements
\* formerly in [n, size) destroyed; if n > size the first size elements are
\* unchanged, the cells [size, n) hold value-initialized elements, size = n and
\* capacity >= n.
C12_Resize ==
    \A x \in Vecs : Usable(x) =>
        \A n \in 0..MaxCap :
            LET r == Resize(Quiet, vec, x, n)
                pre == Elems(heap, vec[x])
                post == Elems(r.m.heap, r.vec[x])
            IN Ok(r.m) =>
                  /\ r.vec[x].size = n
                  /\ Invariant(r.m.heap, r.vec[x])
                  /\ n = vec[x].size => (r.vec = vec /\ r.m.heap = heap)
                  /\ n < vec[x].size =>
                         /\ post = SubSeq(pre, 1, n)
                         /\ r.vec[x].data = vec[x].data
                         /\ \A i \in n..(vec[x].size - 1) :
                                ~IsLive(r.m.heap, vec[x].data.buffer, i)
                  /\ n > vec[x].size =>
                         /\ post = [i \in 1..n |-> IF i <= vec[x].size THEN pre[i] ELSE Default]
                         /\ r.vec[x].data.capacity >= n

\* C12 happens: in one state a Resize that truncates a full Vector of two elements,
\* one that extends it beyond its capacity and one that leaves it alone.
C12_Witness ==
    \E x \in Vecs :
        /\ Usable(x) /\ vec[x].size = 2 /\ vec[x].data.capacity = 2
        /\ Elems(heap, vec[x])[2] # Default
        /\ Ok(Resize(Quiet, vec, x, 1).m)
        /\ Ok(Resize(Quiet, vec, x, 2).m)
        /\ LET r == Resize(Quiet, vec, x, 4)
           IN Ok(r.m) /\ r.vec[x].size = 4 /\ r.vec[x].data.buffer # vec[x].data.buffer

\* Every allocated block of h is the buffer_ of exactly one Vector of V, and every
\* Vector holds either an allocated block of its capacity or nullptr and capacity 0.
ExclusiveOwnership(h, V) ==
    /\ \A b \in BlockIds :
           h[b].alloc => Cardinality({x \in Vecs : V[x].alive /\ V[x].data.buffer = b}) = 1
    /\ \A x \in Vecs : V[x].alive =>
           IF V[x].data.buffer = Null THEN V[x].data.capacity = 0
           ELSE h[V[x].data.buffer].alloc
                /\ Len(h[V[x].data.buffer].cell) = V[x].data.capacity

\* Every call that can be made in the current state, with the failure (f, o).
AnyCall(f, o) ==
    UNION {
        IF Usable(x)
        THEN {EmplaceBack(Start(f, o), vec, x, args) : args \in ArgsOf(x)}
             \cup {Emplace(Start(f, o), vec, x, p, args) :
                       p \in 0..vec[x].size, args \in ArgsOf(x)}
             \cup {Erase(Start(f, o), vec, x, p) : p \in 0..(vec[x].size - 1)}
             \cup {PopBack(Start(f, o), vec, x) : p \in 1..Min(vec[x].size, 1)}
             \cup {Reserve(Start(f, o), vec, x, n) : n \in 0..MaxCap}
             \cup {Resize(Start(f, o), vec, x, n) : n \in 0..MaxCap}
             \cup {VectorDestroy(Start(f, o), vec, x)}
             \cup UNION {{OpCopyAssign(Start(f, o), vec, x, y),
                          OpMoveAssign(Start(f, o), vec, x, y),
                          Swap(Start(f, o), vec, x, y)} : y \in {z \in Vecs : Usable(z)}}
        ELSE IF ~vec[x].alive
        THEN {VectorCopy(Start(f, o), vec, x, y) : y \in {z \in Vecs : Usable(z)}}
             \cup {VectorMove(Start(f, o), vec, x, y) : y \in {z \in Vecs : Usable(z)}}
             \cup {VectorSized(Start(f, o), vec, x, n) : n \in 0..MaxCap}
             \cup {VectorDefault(Start(f, o), vec, x)}
        ELSE {VectorDestroy(Start(f, o), vec, x) : y \in {z \in {x} : Alive(z)}}
        : x \in Vecs}

\* C13: at every point of any sequence of constructions, moves, swaps, growths and
\* destructions, and after every call whether it returns or throws, each allocated
\* block is owned by exactly one RawMemory/Vector: no two hold the same base
\* address, a moved-from RawMemory holds nullptr and capacity 0, and no block is
\* released twice.
C13_ExclusiveOwnership ==
    /\ ExclusiveOwnership(heap, vec)
    /\ ~fault.dfree
    /\ \A f \in Budgets, o \in BOOLEAN : (o => f = NoFail) =>
           \A r \in AnyCall(f, o) : ExclusiveOwnership(r.m.heap, r.vec) /\ ~r.m.dfree
    /\ \A x \in Vecs, y \in Vecs : (~vec[x].alive /\ Usable(y)) =>
           VectorMove(Quiet, vec, x, y).vec[y].data = EmptyRawMemory
    /\ \A x \in Vecs, y \in Vecs : (x # y /\ Usable(x) /\ Usable(y)) =>
           LET r == RawMemoryMoveAssign(Quiet, vec[x].data, vec[y].data)
           IN /\ r.rhs = EmptyRawMemory /\ r.this = vec[y].data
              /\ r.m.freed = {vec[x].data.buffer} \ {Null} /\ ~r.m.dfree

\* C13 happens: two Vectors own a block each, and a move assignment between them
\* and a growth into a third block can take place.
C13_Witness ==
    \E x \in Vecs, y \in Vecs :
        /\ x # y /\ Usable(x) /\ Usable(y)
        /\ vec[x].data.buffer # Null /\ vec[y].data.buffer # Null
        /\ vec[x].size >= 1 /\ vec[y].size = 0
        /\ Ok(Reserve(Quiet, vec, x, vec[x].data.capacity + 1).m)
        /\ Ok(OpMoveAssign(Quiet, vec, y, x).m)

\* The call with result r threw, left every Vector and the free store as they were,
\* released the block it had allocated and no other, with no live element in it, and
\* destroyed nothing but objects.
RolledBack(r) ==
    /\ r.vec = vec /\ r.m.heap = heap
    /\ r.m.ptr # Null /\ r.m.freed = {r.m.ptr}
    /\ ~r.m.leak /\ ~r.m.ub

\* C14: in an Insert/Emplace that grows, at 0 < p < size, if copying the prefix
\* [0, p) into the new block fails, the handler destroys the new element at offset p
\* of the new block and no other cell, the new block is released with no live element
\* in it and the Vector's size, capacity and elements are unchanged.
C14_PrefixFailure ==
    \A x \in Vecs : (Usable(x) /\ vec[x].size = vec[x].data.capacity) =>
        \A p \in 1..(vec[x].size - 1), v \in Vals : \A f \in 1..p :
            LET r == Emplace(Start(f, FALSE), vec, x, p, ByValue(v))
            IN r.m.exc = "copy" => RolledBack(r)

\* C15: in an Insert/Emplace that grows, if copying the suffix [p, size) into the new
\* block fails, the prefix already migrated and the new element at offset p of the
\* new block are destroyed before the new block is released, and the Vector's size,
\* capacity and elements are unchanged.
C15_SuffixFailure ==
    \A x \in Vecs : (Usable(x) /\ vec[x].size = vec[x].data.capacity) =>
        \A p \in 0..(vec[x].size - 1), v \in Vals : \A f \in (p + 1)..vec[x].size :
            LET r == Emplace(Start(f, FALSE), vec, x, p, ByValue(v))
            IN r.m.exc = "copy" => RolledBack(r)

\* C16: in an append that grows and migrates by copy, if copying an old element
\* fails, the Vector's size, capacity and elements are unchanged and every element
\* constructed in the new block during the call (the copied prefix and the new
\* element at cell size) has been destroyed before the block is released.
C16_AppendCopyFailure ==
    \A x \in Vecs : (Usable(x) /\ vec[x].size = vec[x].data.capacity) =>
        \A v \in Vals, f \in 1..vec[x].size :
            LET r == EmplaceBack(Start(f, FALSE), vec, x, ByValue(v))
            IN r.m.exc = "copy" => RolledBack(r)

\* C17: in an Insert/Emplace with room left, at p < size, if a move assignment of
\* the shift to the right (or the assignment into cell p) fails, then every element
\* constructed during the call has been destroyed (the element constructed in the
\* cell size is not left live outside [0, size)) and size is what it was.
C17_ShiftFailure ==
    \A x \in Vecs : (Usable(x) /\ vec[x].size < vec[x].data.capacity) =>
        \A p \in 0..(vec[x].size - 1), v \in Vals, f \in Budgets :
            LET r == Emplace(Start(f, FALSE), vec, x, p, ByValue(v))
            IN r.m.exc = "move_assign" =>
                  /\ r.vec[x].size = vec[x].size
                  /\ \A i \in vec[x].size..(vec[x].data.capacity - 1) :
                         ~IsLive(r.m.heap, vec[x].data.buffer, i)

\* C18: after the copy assignment a = b of distinct Vectors, a.size = b.size, a is
\* element-wise equal to b, b is unchanged and no cell of a at an index >= a.size is
\* live.  If b.size <= a.capacity beforehand, a keeps its block and capacity;
\* otherwise a's capacity becomes b.size, a's old elements are all destroyed and its
\* old block is released.  Self-assignment changes nothing.
C18_CopyAssign ==
    /\ \A x \in Vecs, y \in Vecs : (x # y /\ Usable(x) /\ Usable(y)) =>
           LET r == OpCopyAssign(Quiet, vec, x, y)
           IN Ok(r.m) =>
                 /\ r.vec[x].size = vec[y].size
                 /\ Elems(r.m.heap, r.vec[x]) = Elems(heap, vec[y])
                 /\ r.vec[y] = vec[y]
                 /\ Abs(r.m.heap, r.vec[y]) = Abs(heap, vec[y])
                 /\ Invariant(r.m.heap, r.vec[x])
                 /\ ~r.m.leak /\ ~r.m.ub
                 /\ IF vec[y].size <= vec[x].data.capacity
                    THEN r.vec[x].data = vec[x].data /\ r.m.freed = {}
                    ELSE /\ r.vec[x].data.capacity = vec[y].size
                         /\ r.vec[x].data.buffer \notin {Null, vec[x].data.buffer}
                         /\ r.m.freed = {vec[x].data.buffer} \ {Null}
    /\ \A x \in Vecs : Usable(x) =>
           LET r == OpCopyAssign(Quiet, vec, x, x)
           IN Ok(r.m) /\ r.vec = vec /\ r.m.heap = heap

\* C18 happens: in one state a copy assignment of a shorter Vector to a longer one,
\* and the one the other way, which has to grow.
C18_Witness ==
    \E x \in Vecs, y \in Vecs :
        /\ x # y /\ Usable(x) /\ Usable(y)
        /\ vec[x].size = 2 /\ vec[y].size = 1 /\ vec[y].data.capacity = 1
        /\ Elems(heap, vec[x])[1] # Elems(heap, vec[y])[1]
        /\ Ok(OpCopyAssign(Quiet, vec, x, y).m)
        /\ LET r == OpCopyAssign(Quiet, vec, y, x)
           IN Ok(r.m) /\ r.vec[y].data.capacity = 2

\* The capacities a Vector grown by appends alone goes through: 0, 1, 2, 4, 8, ...
DoublingCapacity(c) == c = 0 \/ \E k \in 0..MaxAppends : c = 2^k

\* C19: an append changes the capacity only when size = capacity, and then to
\* exactly max(1, 2 * capacity); so over N >= 1 appends from an empty Vector the
\* capacities visited are 0, 1, 2, 4, 8, ... and the number of elements migrated from
\* an old block to a new one is fewer than 2N.
C19_Amortized ==
    [][/\ vec'["a"].data.capacity # vec["a"].data.capacity =>
              /\ vec["a"].size = vec["a"].data.capacity
              /\ vec'["a"].data.capacity =
                     IF vec["a"].data.capacity = 0 THEN 1 ELSE 2 * vec["a"].data.capacity
       /\ DoublingCapacity(vec'["a"].data.capacity)
       /\ Len(appended') >= 1 => relocations' < 2 * Len(appended')
       /\ relocations' >= relocations]_vars

\* C19 happens: MaxAppends appends have grown the block several times and have
\* migrated elements more often than they appended.
C19_Witness ==
    /\ Len(appended) = MaxAppends
    /\ vec["a"].data.capacity >= 8
    /\ relocations > MaxAppends

\* C20: when the argument of PushBack/EmplaceBack or Insert/Emplace is an lvalue
\* reference to an element of the same Vector (v.PushBack(v[i]), v.Insert(p, v[i])),
\* the inserted element equals the value that element had before the call, in every
\* path (append in place, append with growth, insert in place, insert with growth),
\* and the reference is read while the element it names is alive.
C20_Aliasing ==
    \A x \in Vecs : Usable(x) =>
        \A i \in 0..(vec[x].size - 1) :
            LET arg == ByRef(vec[x].data.buffer, i)
                was == Elems(heap, vec[x])[i + 1]
                back == EmplaceBack(Quiet, vec, x, arg)
            IN /\ Ok(back.m) =>
                      /\ Elems(back.m.heap, back.vec[x])[vec[x].size + 1] = was
                      /\ back.vec[x].size = vec[x].size + 1
                      /\ ~back.m.ub
               /\ \A p \in 0..vec[x].size :
                      LET r == Emplace(Quiet, vec, x, p, arg)
                      IN Ok(r.m) => (InsertPost(x, p, was, r) /\ ~r.m.ub)

\* C20 happens: in a full Vector of two different elements the second is inserted
\* by reference before the first and appended by reference (both calls grow), and in
\* the Vector the insert gives, which has room left, the last element is inserted by
\* reference at the front and appended by reference.
C20_Witness ==
    \E x \in Vecs :
        /\ Usable(x) /\ vec[x].size = 2 /\ vec[x].data.capacity = 2
        /\ Elems(heap, vec[x])[1] # Elems(heap, vec[x])[2]
        /\ Ok(EmplaceBack(Quiet, vec, x, ByRef(vec[x].data.buffer, 1)).m)
        /\ LET r == Emplace(Quiet, vec, x, 0, ByRef(vec[x].data.buffer, 1))
               then == Machine(r.m.heap, store, NoFail, FALSE, nothrowMove)
           IN /\ Ok(r.m) /\ r.vec[x].size < r.vec[x].data.capacity
              /\ Ok(Emplace(then, r.vec, x, 0, ByRef(r.vec[x].data.buffer, 2)).m)
              /\ Ok(EmplaceBack(then, r.vec, x, ByRef(r.vec[x].data.buffer, 2)).m)

====
